---- MODULE Spec2Model ----
(***************************************************************************)
(* Model of the metric-extraction engine of src/perp.py: the retry wrapper *)
(* retry_with_backoff, the extractors scrape_playcount and                 *)
(* get_youtube_views, and the two batch functions process_spotify_data and *)
(* process_youtube_data.  One behaviour of the model is one call of one of *)
(* the two batch functions on one input table; the outcomes of the         *)
(* external services (browser, metadata query) are chosen by the           *)
(* environment at every call.                                              *)
(***************************************************************************)
EXTENDS Integers, Sequences, FiniteSets, TLC

(* ------------------------------ bounds -------------------------------- *)

\* Largest number of rows of an input table.
MaxRows == 3

\* Longest element text given to the digit extraction on its own.
MaxTextLen == 3

\* The raw view counts given to the normalizer on its own are the multiples
\* of 2500 up to MaxViewK * 2500.
MaxViewK == 1000

(* ------------------------- program constants -------------------------- *)

\* retry_with_backoff(func, max_retries=3, backoff_factor=2)
max_retries == 3
backoff_factor == 2

(* ------------------------------ values -------------------------------- *)

\* Python None (an absent result) and pandas NaN (an empty cell).
None == [t |-> "None"]
NaN == "NaN"

\* A Python int and a Python float with two decimals (h is the value in
\* hundredths).
PyInt(n) == [t |-> "int", v |-> n]
PyFloat(h) == [t |-> "float", h |-> h]

IsNone(x) == x.t = "None"
IsZero(x) == \/ x.t = "int" /\ x.v = 0
             \/ x.t = "float" /\ x.h = 0

\* A test for an empty cell that misses the NaN of an empty spreadsheet cell.
isna_EmptyString(cell) == cell = ""

\* pd.isna on a URL cell
isna(cell) == cell = NaN

RECURSIVE Pow(_, _)
Pow(b, e) == IF e = 0 THEN 1 ELSE b * Pow(b, e - 1)

(* ----------------------- scrape_playcount parsing --------------------- *)

Digits == {"0", "1", "2", "3", "4", "5", "6", "7", "8", "9"}

DigitValue(c) ==
  CASE c = "0" -> 0 [] c = "1" -> 1 [] c = "2" -> 2 [] c = "3" -> 3
    [] c = "4" -> 4 [] c = "5" -> 5 [] c = "6" -> 6 [] c = "7" -> 7
    [] c = "8" -> 8 [] c = "9" -> 9

\* ''.join(filter(str.isdigit, text))
RECURSIVE FilterDigits(_)
FilterDigits(text) ==
  IF text = <<>> THEN <<>>
  ELSE IF Head(text) \in Digits
       THEN <<Head(text)>> \o FilterDigits(Tail(text))
       ELSE FilterDigits(Tail(text))

\* int(count_text) of a non-empty string of digits
RECURSIVE ParseInt(_)
ParseInt(s) ==
  IF s = <<>> THEN 0
  ELSE ParseInt(SubSeq(s, 1, Len(s) - 1)) * 10 + DigitValue(s[Len(s)])

\* return int(count_text) if count_text else 0
CountOfText(text) ==
  LET count_text == FilterDigits(text)
  IN IF count_text # <<>> THEN ParseInt(count_text) ELSE 0

(* ------------------------ environment outcomes ------------------------ *)

\* Texts the located play-count element can carry.
ElementTexts ==
  { <<"1", ",", "2", " ", "p">>, <<"p">>, <<"0">>, <<"7">> }

\* What one call of scrape_playcount can meet: driver.get raising, the
\* element wait timing out, or the element being located with some text.
ScrapeOutcomes ==
  {[k |-> "nav_error"], [k |-> "wait_timeout"]}
    \cup {[k |-> "text", text |-> t] : t \in ElementTexts}

\* Raw view counts the metadata query can report.
RawViews == {0, 500000, 2500000}

\* What one call of get_youtube_views can meet: extract_info raising, or
\* metadata with a view_count field (a number or None) or without one.
YoutubeOutcomes ==
  {[k |-> "raise"], [k |-> "missing"], [k |-> "field", value |-> None]}
    \cup {[k |-> "field", value |-> PyInt(v)] : v \in RawViews}

(* ----------------------- format_views_to_millions --------------------- *)

\* The raw counts v * 10000 + 5000 below one million whose quotient by
\* 1_000_000, as an IEEE double, lies above the decimal tie, so that
\* round(millions, 2) goes up; on the other ties it goes down.
TiesRoundedUp ==
  {
    5000, 25000, 35000, 55000, 65000, 85000, 95000, 115000,
    135000, 165000, 195000, 225000, 255000, 265000, 275000, 315000,
    325000, 335000, 375000, 385000, 395000, 405000, 445000, 455000,
    465000, 505000, 515000, 525000, 535000, 545000, 555000, 635000,
    645000, 655000, 665000, 675000, 685000, 755000, 765000, 775000,
    785000, 795000, 805000, 875000, 885000, 895000, 905000, 915000,
    925000, 935000 }

\* round(views / 1_000_000, 2) in hundredths, for 0 <= views < 1_000_000
Round2(views) ==
  LET q == views \div 10000
      r == views % 10000
  IN IF r > 5000 \/ (r = 5000 /\ views \in TiesRoundedUp) THEN q + 1 ELSE q

\* A variant that rounds the millions to the nearest whole number.
format_views_Rounded(views) ==
  IF IsNone(views) THEN None
  ELSE IF views.v < 1000000
       THEN PyFloat(Round2(views.v))
       ELSE PyInt((views.v + 500000) \div 1000000)

format_views_to_millions(views) ==
  IF IsNone(views) THEN None
  ELSE IF views.v < 1000000
       THEN PyFloat(Round2(views.v))
       ELSE PyInt(views.v \div 1000000)

\* info.get('view_count', 0)
ViewCountOf(out) ==
  IF out.k = "missing" THEN PyInt(0) ELSE out.value

(* ------------------------------- tables ------------------------------- *)

\* A table is a function from column labels to columns, all of one length.
\* The URL of row i, when the row has one: the rows hold distinct URLs.
UrlNames == <<"u1", "u2", "u3", "u4", "u5", "u6">>
UrlColumn(n, present) ==
  [i \in 1..n |-> IF i \in present THEN UrlNames[i] ELSE NaN]

\* df['Play Count'] and df['Views (Millions)']
ResultLabel(k) == IF k = "spotify" THEN "Play Count" ELSE "Views (Millions)"

\* The cells a result column left by an earlier run holds.
OldCell == PyInt(7)

\* The input tables: a URL column, a column of other data, and possibly the
\* result column of an earlier run.
Table(k, urls, prior) ==
  LET n == Len(urls)
      base == [c \in {"URL", "Title"} |->
                 IF c = "URL" THEN urls ELSE [i \in 1..n |-> "t"]]
  IN IF prior THEN base @@ (ResultLabel(k) :> [i \in 1..n |-> OldCell])
     ELSE base

\* len(df)
NumRows(t) == Len(t["Title"])

\* df[label] = column
WithColumn(t, label, column) ==
  [c \in DOMAIN t \cup {label} |-> IF c = label THEN column ELSE t[c]]

(* ------------------------------- state -------------------------------- *)

VARIABLES
  kind,        \* "spotify": process_spotify_data, "youtube": process_youtube_data
  input,       \* the caller's table
  url_column,  \* the column label passed by the caller
  df,          \* the local name df
  aliased,     \* TRUE while df is the caller's object, FALSE once it is a copy
  pc,          \* position in the batch function
  index,       \* rows iterated so far (the index of df.iterrows())
  results,     \* play_counts / views
  driver,      \* "unbound", "open" or "closed": the browser session
  launches,    \* sessions launched by setup_selenium
  navigated,   \* URLs the session was sent to by driver.get
  retries,     \* retries of retry_with_backoff.wrapper
  outs,        \* what each extractor call of the current row met
  waits,       \* backoff sleeps of the current row
  rowlog,      \* per finished row: its cell, its calls, its backoff sleeps, how
               \* its extraction ended and the value it handed to the batch
  progress,    \* the fractions given to progress_bar.progress, as <<i, n>>
  outcome,     \* "running", "returned" or "raised"
  retval,      \* the table returned
  lastEvent,   \* the last call or sleep: "none", "call", "random_delay",
               \* "backoff", "row_sleep"
  fn_arg,      \* the argument of a function applied on its own
  fn_ret       \* the value it returned

vars == <<kind, input, url_column, df, aliased, pc, index, results, driver,
          launches, navigated, retries, outs, waits, rowlog, progress,
          outcome, retval, lastEvent, fn_arg, fn_ret>>

Init ==
  /\ kind \in {"spotify", "youtube"}
  /\ \E n \in 0..MaxRows : \E present \in SUBSET (1..n) : \E prior \in BOOLEAN :
       input = Table(kind, UrlColumn(n, present), prior)
  /\ url_column \in {"URL", "Links"}
  /\ df = input
  /\ aliased = TRUE
  /\ pc = "start"
  /\ index = 0
  /\ results = <<>>
  /\ driver = "unbound"
  /\ launches = 0
  /\ navigated = <<>>
  /\ retries = 0
  /\ outs = <<>>
  /\ waits = <<>>
  /\ rowlog = <<>>
  /\ progress = <<>>
  /\ outcome = "running"
  /\ retval = None
  /\ lastEvent = "none"
  /\ fn_arg = [t |-> "nothing"]
  /\ fn_ret = [t |-> "nothing"]

(* ------------------------- helpers of the steps ----------------------- *)

\* total_rows = len(df)
total_rows == NumRows(df)

\* row[url_column] of the row being iterated
CurrentCell == df[url_column][index + 1]

\* A variant that reports index / total_rows.
ProgressUpdate_ZeroBased == Append(progress, <<index, total_rows>>)

\* progress = (index + 1) / total_rows; progress_bar.progress(progress)
ProgressUpdate == Append(progress, <<index + 1, total_rows>>)

\* A variant without .copy(): df stays the caller's object.
AliasedAfterCopy_NoCopy(a) == a

\* df = df.copy(): df is a new object from here on
AliasedAfterCopy(a) == FALSE

\* play_counts.append(0) / views.append(None) for a row with an empty cell
EmptyPlaceholder(k) == IF k = "spotify" THEN PyInt(0) ELSE None

\* What scrape_playcount returns: the parsed count, or 0 from its handler.
ScrapeResult(out) ==
  IF out.k = "text" THEN PyInt(CountOfText(out.text)) ELSE PyInt(0)

\* Variants of the loop condition that are off by one: one pass too many,
\* one pass too few.
LoopCond_OneMore(r) == r <= max_retries
LoopCond_OneFewer(r) == r < max_retries - 1

\* while retries < max_retries
LoopCond(r) == r < max_retries

\* Variants without the sleep: the last event stays what it was.
BackoffPause_None(ev) == ev
RowPause_None(ev) == ev

\* time.sleep(wait) in the wrapper's handler
BackoffPause(ev) == "backoff"

\* time.sleep(1) at the end of a row that had a URL
RowPause(ev) == "row_sleep"

\* A variant that waits the same time after every failure.
BackoffWait_Fixed(r) == backoff_factor

\* wait = backoff_factor ** retries
BackoffWait(r) == Pow(backoff_factor, r)

\* The delays time.sleep(wait) can be given after a failure with `r`
\* retries behind it: the one value computed, nothing is drawn at random.
DelaySet(r) == {BackoffWait(r)}

\* A variant without the row's try: the exception leaves the batch function.
MaxRetriesHandler_Escapes == "raise"

\* Where the exception raised by the wrapper lands in process_youtube_data:
\* the handler of the row's try.
MaxRetriesHandler == "row_except"

\* A variant in which the view-count batch, too, has an outer handler.
KeyErrorTarget_Absorbed(k) == "except"

\* Where the KeyError of row[url_column] lands: the outer handler of
\* process_spotify_data; process_youtube_data has a finally clause only.
KeyErrorTarget(k) == IF k = "spotify" THEN "except" ELSE "raise"

\* A variant whose finally clause does not quit the driver.
Finally_NoQuit(d) == d

\* finally: if 'driver' in locals(): driver.quit()
Finally(d) == IF d = "open" THEN "closed" ELSE d

\* A variant that continues without recording a result for the row.
SkipRow_NoAppend(rs, k) == rs

\* play_counts.append(0) / views.append(None); continue
SkipRow(rs, k) == Append(rs, EmptyPlaceholder(k))

\* A variant in which the extractor quits the session it was given.
DriverAfterScrape_Quit(d) == "closed"

\* scrape_playcount navigates the session it is given and leaves it open.
DriverAfterScrape(d) == d

\* A variant that reads info['view_count'], which raises on a missing field.
Raises_OnMissingField(out) == out.k \in {"raise", "missing"}

\* get_youtube_views raises exactly when the metadata query raises; a
\* missing view_count field is read with a default.
Raises(out) == out.k = "raise"

\* No value: the row was skipped or its extraction raised.
Nothing == [t |-> "nothing"]

RowEntry(cell, calls, sleeps, how, value) ==
  [url |-> cell, outs |-> calls, waits |-> sleeps, ended |-> how,
   ret |-> value]

(* ------------------------------- steps -------------------------------- *)

\* df = df.copy(), the result list and the progress widgets
Begin ==
  /\ pc = "start"
  /\ aliased' = AliasedAfterCopy(aliased)
  /\ pc' = IF kind = "spotify" THEN "setup" ELSE "loop"
  /\ UNCHANGED <<fn_arg, fn_ret, kind, input, url_column, df, index, results, driver,
                 launches, navigated, retries, outs, waits, rowlog, progress,
                 outcome, retval, lastEvent>>

\* driver = setup_selenium(): the launch succeeds or raises
setup_selenium ==
  /\ pc = "setup"
  /\ \E ok \in BOOLEAN :
       IF ok
       THEN /\ driver' = "open"
            /\ launches' = launches + 1
            /\ pc' = "loop"
       ELSE /\ pc' = "except"
            /\ UNCHANGED <<driver, launches>>
  /\ UNCHANGED <<fn_arg, fn_ret, kind, input, url_column, df, aliased, index, results,
                 navigated, retries, outs, waits, rowlog, progress, outcome,
                 retval, lastEvent>>

\* df.iterrows() is exhausted
LoopExit ==
  /\ pc = "loop"
  /\ index = total_rows
  /\ pc' = "assign"
  /\ UNCHANGED <<fn_arg, fn_ret, kind, input, url_column, df, aliased, index, results, driver,
                 launches, navigated, retries, outs, waits, rowlog, progress,
                 outcome, retval, lastEvent>>

\* row[url_column] raises KeyError: the column is not in the table
RowKeyError ==
  /\ pc = "loop"
  /\ index < total_rows
  /\ url_column \notin DOMAIN df
  /\ progress' = ProgressUpdate
  /\ pc' = KeyErrorTarget(kind)
  /\ UNCHANGED <<fn_arg, fn_ret, kind, input, url_column, df, aliased, index, results, driver,
                 launches, navigated, retries, outs, waits, rowlog, outcome,
                 retval, lastEvent>>

\* a row whose URL cell is empty: the placeholder, and continue
RowEmpty ==
  /\ pc = "loop"
  /\ index < total_rows
  /\ url_column \in DOMAIN df
  /\ isna(CurrentCell)
  /\ progress' = ProgressUpdate
  /\ results' = SkipRow(results, kind)
  /\ rowlog' = Append(rowlog,
                 RowEntry(CurrentCell, <<>>, <<>>, "skipped", Nothing))
  /\ index' = index + 1
  /\ UNCHANGED <<fn_arg, fn_ret, kind, input, url_column, df, aliased, pc, driver, launches,
                 navigated, retries, outs, waits, outcome, retval, lastEvent>>

\* a row with a URL: on to its extraction
RowNonEmpty ==
  /\ pc = "loop"
  /\ index < total_rows
  /\ url_column \in DOMAIN df
  /\ ~isna(CurrentCell)
  /\ progress' = ProgressUpdate
  /\ retries' = 0
  /\ outs' = <<>>
  /\ waits' = <<>>
  /\ pc' = IF kind = "spotify" THEN "scrape" ELSE "wrapper"
  /\ UNCHANGED <<fn_arg, fn_ret, kind, input, url_column, df, aliased, index, results, driver,
                 launches, navigated, rowlog, outcome, retval, lastEvent>>

\* play_count = scrape_playcount(spotify_url, driver); play_counts.append
scrape_playcount ==
  /\ pc = "scrape"
  /\ \E out \in ScrapeOutcomes :
       /\ outs' = Append(outs, out)
       /\ results' = Append(results, ScrapeResult(out))
       /\ rowlog' = Append(rowlog,
                      RowEntry(CurrentCell, Append(outs, out), waits, "value",
                               ScrapeResult(out)))
  /\ navigated' = Append(navigated, CurrentCell)
  /\ driver' = DriverAfterScrape(driver)
  /\ lastEvent' = "call"
  /\ pc' = "row_sleep"
  /\ UNCHANGED <<fn_arg, fn_ret, kind, input, url_column, df, aliased, index, launches,
                 retries, waits, progress, outcome, retval>>

\* One pass of the wrapper's loop: func(*args) is get_youtube_views. When it
\* returns, the wrapper returns its value, which is formatted and appended.
wrapper_call ==
  /\ pc = "wrapper"
  /\ LoopCond(retries)
  /\ \E out \in YoutubeOutcomes :
       /\ outs' = Append(outs, out)
       /\ IF Raises(out)
          THEN /\ pc' = "backoff"
               /\ lastEvent' = "call"
               /\ UNCHANGED <<results, rowlog>>
          ELSE /\ results' =
                    Append(results, format_views_to_millions(ViewCountOf(out)))
               /\ rowlog' = Append(rowlog,
                     RowEntry(CurrentCell, Append(outs, out), waits, "value",
                              ViewCountOf(out)))
               /\ lastEvent' = "random_delay"
               /\ pc' = "row_sleep"
  /\ UNCHANGED <<fn_arg, fn_ret, kind, input, url_column, df, aliased, index, driver, launches,
                 navigated, retries, waits, progress, outcome, retval>>

\* except Exception: time.sleep(backoff_factor ** retries); retries += 1
wrapper_except ==
  /\ pc = "backoff"
  /\ \E wait \in DelaySet(retries) : waits' = Append(waits, wait)
  /\ retries' = retries + 1
  /\ lastEvent' = BackoffPause(lastEvent)
  /\ pc' = "wrapper"
  /\ UNCHANGED <<fn_arg, fn_ret, kind, input, url_column, df, aliased, index, results, driver,
                 launches, navigated, outs, rowlog, progress, outcome, retval>>

\* the loop ends: raise Exception("Max retries reached. ...")
wrapper_raise ==
  /\ pc = "wrapper"
  /\ ~LoopCond(retries)
  /\ pc' = MaxRetriesHandler
  /\ UNCHANGED <<fn_arg, fn_ret, kind, input, url_column, df, aliased, index, results, driver,
                 launches, navigated, retries, outs, waits, rowlog, progress,
                 outcome, retval, lastEvent>>

\* except Exception in the row loop of process_youtube_data: views.append(None)
row_except ==
  /\ pc = "row_except"
  /\ results' = Append(results, None)
  /\ rowlog' = Append(rowlog,
                 RowEntry(CurrentCell, outs, waits, "raised", Nothing))
  /\ pc' = "row_sleep"
  /\ UNCHANGED <<fn_arg, fn_ret, kind, input, url_column, df, aliased, index, driver, launches,
                 navigated, retries, outs, waits, progress, outcome, retval,
                 lastEvent>>

\* time.sleep(1) at the end of a row that had a URL
row_sleep ==
  /\ pc = "row_sleep"
  /\ lastEvent' = RowPause(lastEvent)
  /\ index' = index + 1
  /\ pc' = "loop"
  /\ UNCHANGED <<fn_arg, fn_ret, kind, input, url_column, df, aliased, results, driver,
                 launches, navigated, retries, outs, waits, rowlog, progress,
                 outcome, retval>>

\* df[label] = results; return df; the finally clause
assign_and_return ==
  /\ pc = "assign"
  /\ df' = WithColumn(df, ResultLabel(kind), results)
  /\ input' = IF aliased THEN df' ELSE input
  /\ retval' = df'
  /\ outcome' = "returned"
  /\ driver' = Finally(driver)
  /\ pc' = "done"
  /\ UNCHANGED <<fn_arg, fn_ret, kind, url_column, aliased, index, results, launches,
                 navigated, retries, outs, waits, rowlog, progress, lastEvent>>

\* except Exception in process_spotify_data: return df; the finally clause
spotify_except ==
  /\ pc = "except"
  /\ retval' = df
  /\ outcome' = "returned"
  /\ driver' = Finally(driver)
  /\ pc' = "done"
  /\ UNCHANGED <<fn_arg, fn_ret, kind, input, url_column, df, aliased, index, results,
                 launches, navigated, retries, outs, waits, rowlog, progress,
                 lastEvent>>

\* an exception leaves process_youtube_data through its finally clause
youtube_raise ==
  /\ pc = "raise"
  /\ outcome' = "raised"
  /\ pc' = "done"
  /\ UNCHANGED <<fn_arg, fn_ret, kind, input, url_column, df, aliased, index, results, driver,
                 launches, navigated, retries, outs, waits, rowlog, progress,
                 retval, lastEvent>>

Next ==
  \/ Begin
  \/ setup_selenium
  \/ LoopExit
  \/ RowKeyError
  \/ RowEmpty
  \/ RowNonEmpty
  \/ scrape_playcount
  \/ wrapper_call
  \/ wrapper_except
  \/ wrapper_raise
  \/ row_except
  \/ row_sleep
  \/ assign_and_return
  \/ spotify_except
  \/ youtube_raise

Spec == Init /\ [][Next]_vars

(* ------------------- the pure functions on their own ------------------ *)

\* No batch is running: the batch variables keep these values while a
\* function is applied to an argument.
NoBatch ==
  /\ kind = "spotify"
  /\ input = Table("spotify", <<>>, FALSE)
  /\ url_column = "URL"
  /\ df = input
  /\ aliased = TRUE
  /\ index = 0
  /\ results = <<>>
  /\ driver = "unbound"
  /\ launches = 0
  /\ navigated = <<>>
  /\ retries = 0
  /\ outs = <<>>
  /\ waits = <<>>
  /\ rowlog = <<>>
  /\ progress = <<>>
  /\ outcome = "running"
  /\ retval = None
  /\ lastEvent = "none"

batchvars == <<kind, input, url_column, df, aliased, index, results, driver,
               launches, navigated, retries, outs, waits, rowlog, progress,
               outcome, retval, lastEvent>>

\* The characters of an element text: digits, separators, letters.
TextChars == {"0", "1", ",", " ", "p"}

\* "1,234,567 plays"
ExampleText ==
  <<"1", ",", "2", "3", "4", ",", "5", "6", "7", " ", "p", "l", "a", "y", "s">>

TextInputs ==
  UNION {[1..m -> TextChars] : m \in 0..MaxTextLen} \cup {ExampleText}

\* The located element carries the text fn_arg.
ParseInit ==
  /\ NoBatch
  /\ pc = "apply"
  /\ fn_arg \in TextInputs
  /\ fn_ret = Nothing

\* count_text = ''.join(filter(str.isdigit, text));
\* return int(count_text) if count_text else 0
apply_count_of_text ==
  /\ pc = "apply"
  /\ fn_ret' = ScrapeResult([k |-> "text", text |-> fn_arg])
  /\ pc' = "applied"
  /\ UNCHANGED <<fn_arg, batchvars>>

ParseSpec == ParseInit /\ [][apply_count_of_text]_vars

ViewInputs == {None} \cup {PyInt(k * 2500) : k \in 0..MaxViewK}

\* format_views_to_millions is given the raw count fn_arg.
FormatInit ==
  /\ NoBatch
  /\ pc = "apply"
  /\ fn_arg \in ViewInputs
  /\ fn_ret = Nothing

apply_format_views ==
  /\ pc = "apply"
  /\ fn_ret' = format_views_to_millions(fn_arg)
  /\ pc' = "applied"
  /\ UNCHANGED <<fn_arg, batchvars>>

FormatSpec == FormatInit /\ [][apply_format_views]_vars

(* ======================= properties of the model ====================== *)

\* The batch call has ended.
Done == pc = "done"

\* The caller's URL column, when url_column names a column of the table.
ColumnValid == url_column \in DOMAIN input

\* The browser launch did not raise (there is none in the view-count batch).
LaunchOk == kind = "youtube" \/ launches = 1

AllRaise(calls) == \A j \in 1..Len(calls) : calls[j].k = "raise"

\* The number of raising calls before the first call that does not raise.
RECURSIVE LeadingRaises(_)
LeadingRaises(calls) ==
  IF calls = <<>> \/ Head(calls).k # "raise" THEN 0
  ELSE 1 + LeadingRaises(Tail(calls))

\* The result column holds one entry per input row, entry i for row i.
ColumnAligned ==
  /\ ResultLabel(kind) \in DOMAIN retval
  /\ retval[ResultLabel(kind)] = results
  /\ Len(results) = NumRows(input)
  /\ Len(rowlog) = NumRows(input)
  /\ \A i \in 1..NumRows(input) : rowlog[i].url = input[url_column][i]

(* ---- C1 ---- *)

\* C1, as stated (on a table of at least one row): whatever the rows'
\* outcomes and whether or not the browser launch raises, the table returned
\* has the new result column with one entry per input row, entry i being
\* row i's result.
C1_AsStated ==
  (Done /\ ColumnValid /\ NumRows(input) >= 1) =>
     (outcome = "returned" /\ ColumnAligned)

\* C1, amended: with a valid URL column the batch returns a table; the new
\* result column has one entry per input row, entry i for row i, in the
\* view-count batch always and in the play-count batch when the browser
\* launch succeeds; when the launch raises, the play-count batch returns the
\* table as it was given, without a new result column.
C1_ColumnPerRow ==
  (Done /\ ColumnValid) =>
     /\ outcome = "returned"
     /\ IF LaunchOk THEN ColumnAligned ELSE retval = input /\ results = <<>>

\* A play-count batch of three rows that ended with a skipped row, a row
\* whose navigation raised and a row whose element was never found.
C1_Witness ==
  /\ Done /\ ColumnValid /\ kind = "spotify" /\ launches = 1
  /\ Len(results) = 3
  /\ \E i, j, l \in 1..3 :
       /\ rowlog[i].ended = "skipped"
       /\ rowlog[j].outs # <<>> /\ rowlog[j].outs[1].k = "nav_error"
       /\ rowlog[l].outs # <<>> /\ rowlog[l].outs[1].k = "wait_timeout"

(* ---- C2 ---- *)

\* The finished rows of the view-count batch whose extractor calls all raised.
AllRaiseRows ==
  {i \in 1..Len(rowlog) :
     kind = "youtube" /\ rowlog[i].outs # <<>> /\ AllRaise(rowlog[i].outs)}

\* C2, as stated: when the extractor raises on every call, the wrapper makes
\* exactly max_retries calls and then returns a result to its caller; it
\* never raises.
C2_AsStated ==
  /\ pc # "row_except"
  /\ \A i \in AllRaiseRows :
       Len(rowlog[i].outs) = max_retries /\ rowlog[i].ended = "value"

\* C2, amended: when the extractor raises on every call, the wrapper makes
\* exactly max_retries calls and then raises an exception to its caller
\* (which process_youtube_data catches); it returns no value.
C2_RaisesAfterMaxRetries ==
  /\ pc = "row_except" => Len(outs) = max_retries /\ AllRaise(outs)
  /\ pc \in {"wrapper", "backoff"} => Len(outs) <= max_retries /\ AllRaise(outs)
  /\ \A i \in AllRaiseRows :
       /\ Len(rowlog[i].outs) = max_retries
       /\ rowlog[i].ended = "raised"
       /\ rowlog[i].ret = Nothing

\* The wrapper's exception has reached the handler of the row.
C2_Witness == pc = "row_except" /\ Len(outs) = max_retries /\ AllRaise(outs)

(* ---- C3 ---- *)

\* The value get_youtube_views returns for metadata `out`.
ReturnedViews(out) ==
  CASE out.k = "missing" -> PyInt(0)
    [] out.k = "field" -> out.value

\* C3: a row of the view-count batch whose extractor raised on its first k
\* calls, k < max_retries, and succeeded on call k + 1 ended with the wrapper
\* returning that call's value after exactly k + 1 calls; and the wrapper
\* gives up only when max_retries calls have raised, so that call k + 1 is
\* always made.
C3_SuccessAfterKFailures ==
  /\ pc = "row_except" => LeadingRaises(outs) >= max_retries
  /\ \A i \in 1..Len(rowlog) :
       LET calls == rowlog[i].outs
           k == LeadingRaises(calls)
       IN (kind = "youtube" /\ rowlog[i].ended # "skipped") =>
            IF k < max_retries
            THEN /\ Len(calls) = k + 1
                 /\ rowlog[i].ended = "value"
                 /\ rowlog[i].ret = ReturnedViews(calls[k + 1])
            ELSE rowlog[i].ended = "raised"

\* A row that succeeded on its last allowed call, after max_retries - 1
\* raising calls, with a non-zero count.
C3_Witness ==
  \E i \in 1..Len(rowlog) :
    /\ kind = "youtube"
    /\ LeadingRaises(rowlog[i].outs) = max_retries - 1
    /\ rowlog[i].ended = "value"
    /\ rowlog[i].ret = PyInt(2500000)

(* ---- C4 ---- *)

\* The finished rows for which no value was determined: the URL cell was
\* empty, or the extraction ended on a raised error.
Undetermined ==
  {i \in 1..Len(rowlog) :
     \/ rowlog[i].ended = "skipped"
     \/ rowlog[i].ended = "raised"
     \/ rowlog[i].outs # <<>> /\ rowlog[i].outs[Len(rowlog[i].outs)].k = "nav_error"}

\* C4, as stated: every row for which no value was determined has an absent
\* value in the result list, never the number 0.
C4_AsStated ==
  \A i \in Undetermined : IsNone(results[i]) /\ ~IsZero(results[i])

(* ---- C5 ---- *)

\* C5: a row whose URL cell is empty gets no extraction call (no call is
\* logged for it, no navigation goes to an empty cell, no extraction is ever
\* in progress on an empty cell) and one result is recorded for it before
\* the loop moves on.
C5_EmptyRowSkipped ==
  /\ pc = "loop" => Len(results) = index /\ Len(rowlog) = index
  /\ \A i \in 1..Len(rowlog) :
       input[url_column][i] = NaN =>
         /\ rowlog[i].outs = <<>>
         /\ rowlog[i].ended = "skipped"
         /\ Len(results) >= i
  /\ \A j \in 1..Len(navigated) : navigated[j] # NaN
  /\ pc \in {"scrape", "wrapper", "backoff", "row_except", "row_sleep"} =>
       CurrentCell # NaN

\* An empty row was passed over and the row after it was extracted.
C5_Witness ==
  /\ Len(rowlog) >= 2
  /\ rowlog[1].url = NaN /\ rowlog[1].outs = <<>>
  /\ rowlog[2].outs # <<>>
  /\ Len(results) = Len(rowlog)

(* ---- C6 ---- *)

\* C6: the batch function leaves by an exception, or by its outer handler,
\* only for a missing URL column or a failed browser launch, never for what
\* a row's extraction did; otherwise it returns normally and every row with
\* a URL has had at least one extraction call, whatever happened to the rows
\* before it.
C6_RowErrorsContained ==
  /\ pc = "raise" => ~ColumnValid
  /\ pc = "except" => ~ColumnValid \/ ~LaunchOk
  /\ outcome = "raised" => ~ColumnValid
  /\ (Done /\ ColumnValid /\ LaunchOk) =>
       /\ outcome = "returned"
       /\ Len(rowlog) = NumRows(input)
       /\ \A i \in 1..NumRows(input) :
            input[url_column][i] # NaN => Len(rowlog[i].outs) >= 1

\* A view-count batch returned after its first row failed on every attempt
\* and its second row was extracted all the same.
C6_Witness ==
  /\ Done /\ outcome = "returned" /\ kind = "youtube"
  /\ Len(rowlog) >= 2
  /\ rowlog[1].ended = "raised"
  /\ rowlog[2].outs # <<>>

(* ---- C7 ---- *)

\* C7: when process_spotify_data has returned, by whichever path, every
\* session that was launched has been quit: none is open.
C7_SessionClosedOnExit ==
  Done => /\ driver # "open"
          /\ launches >= 1 => driver = "closed"

\* The play-count batch left through its outer handler (the URL column is
\* missing) with a session launched.
C7_Witness ==
  /\ Done /\ kind = "spotify" /\ launches = 1
  /\ ~ColumnValid /\ NumRows(input) >= 1
  /\ driver = "closed"

(* ---- C8 ---- *)

\* The URLs of the finished rows that have one, in row order.
RECURSIVE UrlsOf(_)
UrlsOf(log) ==
  IF log = <<>> THEN <<>>
  ELSE (IF Head(log).url = NaN THEN <<>> ELSE <<Head(log).url>>)
         \o UrlsOf(Tail(log))

\* C8, as stated: each play-count extraction has a session of its own, torn
\* down before the extraction returns, and no session navigates to more
\* than one URL.
C8_AsStated ==
  kind = "spotify" =>
    /\ Len(navigated) <= launches
    /\ pc = "row_sleep" => driver # "open"

\* C8, amended: a browser session is scoped to one batch call. The
\* play-count batch launches at most one session, before its first row;
\* every extraction of the batch navigates that one session, which stays
\* open from row to row, so that it is sent to as many URLs as there are
\* rows with a URL; it is quit when the batch function returns.
C8_OneSessionPerBatch ==
  kind = "spotify" =>
    /\ launches <= 1
    /\ pc \in {"loop", "scrape", "row_sleep", "assign"} =>
         driver = "open" /\ launches = 1
    /\ navigated = UrlsOf(rowlog)
    /\ Done => driver # "open"

\* One session, still open, has been sent to two different URLs.
C8_Witness ==
  /\ kind = "spotify" /\ launches = 1 /\ driver = "open"
  /\ Len(navigated) = 2
  /\ navigated[1] # navigated[2]

(* ---- C9 ---- *)

\* A call that ended on a raised error.
ErrorOut(o) == o.k \in {"raise", "nav_error"}

\* C9, as stated: for both metric kinds a raised error is retried, so a row
\* is recorded as failed only after max_retries calls.
C9_AsStated ==
  \A i \in 1..Len(rowlog) :
    LET calls == rowlog[i].outs
    IN (calls # <<>> /\ ErrorOut(calls[Len(calls)])) =>
          Len(calls) = max_retries

(* ---- C10 ---- *)

\* The page or the metadata was obtained, and the metric is not in it.
NotFound(o) ==
  \/ o.k \in {"wait_timeout", "missing"}
  \/ o.k = "text" /\ \A j \in 1..Len(o.text) : o.text[j] \notin Digits

\* C10: a NotFound outcome is never retried: it is the last call of its row,
\* no backoff sleep follows it (the row has slept once per call before it),
\* and the row ends with a value; a row whose first call is NotFound has
\* exactly one call and no backoff sleep.
C10_NotFoundNotRetried ==
  /\ pc \in {"wrapper", "backoff", "row_except"} =>
       \A j \in 1..Len(outs) : ~NotFound(outs[j])
  /\ \A i \in 1..Len(rowlog) :
       LET calls == rowlog[i].outs
       IN \A j \in 1..Len(calls) :
            NotFound(calls[j]) =>
              /\ j = Len(calls)
              /\ Len(rowlog[i].waits) = j - 1
              /\ rowlog[i].ended = "value"

\* A view-count row whose metadata came without the field has ended after
\* one call and no backoff sleep, and the loop has moved on.
C10_Witness ==
  \E i \in 1..Len(rowlog) :
    /\ Len(rowlog[i].outs) = 1
    /\ rowlog[i].outs[1].k = "missing"
    /\ rowlog[i].waits = <<>>
    /\ pc = "loop"


(* ---- C11 ---- *)

\* Iterating the table fails: the row loop is reached (the browser launch,
\* if any, succeeded) on a table that has a row, but not the URL column.
StructureError == ~ColumnValid /\ NumRows(input) >= 1 /\ LaunchOk

\* C11, as stated: in both batch paths an error in iterating the table
\* surfaces to the caller as a raised error; no table is returned.
C11_AsStated == (Done /\ StructureError) => outcome = "raised"

\* C11, amended: when the URL column is not in a table of at least one row,
\* the view-count batch raises the error to its caller and returns nothing,
\* and the play-count batch absorbs it in its outer handler: it returns
\* normally, with the table as it was given and no result column added.  In
\* both paths the error comes up at the first row: no result is recorded.
C11_StructureError ==
  (Done /\ StructureError) =>
     /\ results = <<>>
     /\ Len(progress) = 1
     /\ IF kind = "youtube"
        THEN outcome = "raised" /\ retval = None
        ELSE outcome = "returned"
             /\ DOMAIN retval = DOMAIN input
             /\ retval = input

\* The view-count batch has raised on a table without the URL column.
C11_Witness ==
  Done /\ StructureError /\ kind = "youtube" /\ outcome = "raised"


(* ---- C12 ---- *)

NoDigit(text) == \A j \in 1..Len(text) : text[j] \notin Digits

\* C12, as stated: the digits of the element text are parsed as an integer
\* ("1,234,567 plays" gives 1234567), and a text without any digit gives an
\* absent result, never the number 0.
C12_AsStated ==
  pc = "applied" =>
    /\ fn_arg = ExampleText => fn_ret = PyInt(1234567)
    /\ NoDigit(fn_arg) => IsNone(fn_ret) /\ ~IsZero(fn_ret)

(* ---- C13 ---- *)

\* A returned number in hundredths.
Hundredths(x) == IF x.t = "int" THEN x.v * 100 ELSE x.h

Dist(a, b) == IF a >= b THEN a - b ELSE b - a

\* C13, as stated: absent stays absent, 0 gives 0, a count below one
\* million gives the millions rounded to two decimals (500,000 gives 0.5),
\* and a count of one million or more gives the millions rounded to the
\* nearest whole number (2,500,000 gives 3, 1,900,000 gives 2).
C13_AsStated ==
  pc = "applied" =>
    IF IsNone(fn_arg) THEN IsNone(fn_ret)
    ELSE /\ ~IsNone(fn_ret)
         /\ fn_arg.v = 0 => IsZero(fn_ret)
         /\ fn_arg.v = 500000 => Hundredths(fn_ret) = 50
         /\ fn_arg.v < 1000000 =>
              Dist(Hundredths(fn_ret) * 10000, fn_arg.v) <= 5000
         /\ fn_arg.v >= 1000000 =>
              /\ Hundredths(fn_ret) % 100 = 0
              /\ Dist(Hundredths(fn_ret) * 10000, fn_arg.v) <= 500000
         /\ fn_arg.v = 2500000 => Hundredths(fn_ret) = 300
         /\ fn_arg.v = 1900000 => Hundredths(fn_ret) = 200

\* C13, amended: absent stays absent, 0 gives 0 (not absent), a count below
\* one million gives the millions rounded to two decimals (500,000 gives
\* 0.5), and a count of one million or more gives the whole millions it
\* contains, the fraction being cut off, not rounded (2,500,000 gives 2,
\* 1,900,000 gives 1).
C13_TruncatedMillions ==
  pc = "applied" =>
    IF IsNone(fn_arg) THEN IsNone(fn_ret)
    ELSE /\ ~IsNone(fn_ret)
         /\ fn_arg.v = 0 => IsZero(fn_ret)
         /\ fn_arg.v = 500000 => Hundredths(fn_ret) = 50
         /\ fn_arg.v < 1000000 =>
              Dist(Hundredths(fn_ret) * 10000, fn_arg.v) <= 5000
         /\ fn_arg.v >= 1000000 =>
              /\ fn_ret.t = "int"
              /\ fn_ret.v * 1000000 <= fn_arg.v
              /\ fn_arg.v < (fn_ret.v + 1) * 1000000
         /\ fn_arg.v = 2500000 => Hundredths(fn_ret) = 200
         /\ fn_arg.v = 1900000 => Hundredths(fn_ret) = 100

\* 1,900,000 views have been formatted as 1.
C13_Witness ==
  pc = "applied" /\ fn_arg = PyInt(1900000) /\ fn_ret = PyInt(1)


(* ---- C14 ---- *)

\* The next step is a call of the extractor.
AboutToCall == pc = "scrape" \/ (pc = "wrapper" /\ LoopCond(retries))

\* The batch has called an extractor before.
SomeCallMade == outs # <<>> \/ \E i \in 1..Len(rowlog) : rowlog[i].outs # <<>>

\* C14, as stated, and read generously (any sleep counts as the
\* rate-limiting sleep): every call of the extractor, the first call of
\* every row included, starts right after a sleep has completed.
C14_AsStated ==
  AboutToCall => lastEvent \in {"row_sleep", "backoff", "random_delay"}

\* C14, amended: there is no sleep of a fixed duration before every call.
\* The first extractor call of a batch follows no sleep at all; the first
\* call of a later row follows the one-second sleep that ended the previous
\* row with a URL; a retry follows the backoff sleep of the attempt that
\* failed, one backoff sleep per failed attempt.
C14_SleepBeforeCall ==
  AboutToCall =>
    IF ~SomeCallMade THEN lastEvent = "none"
    ELSE IF outs = <<>> THEN lastEvent = "row_sleep"
    ELSE lastEvent = "backoff" /\ Len(waits) = Len(outs)

\* The first call of a batch is about to start in its second row, the first
\* row being empty, and nothing has slept.
C14_Witness ==
  /\ AboutToCall /\ ~SomeCallMade
  /\ Len(rowlog) = 1
  /\ lastEvent = "none"


(* ---- C15 ---- *)

\* The backoff sleeps of the row in progress and of the finished rows.
AllWaits == {waits} \cup {rowlog[i].waits : i \in 1..Len(rowlog)}

\* C15, as stated: the delays possible after a failure do not depend on the
\* attempt number: wherever the wrapper is about to sleep, the set of delays
\* it can sleep is the set it can sleep after a first failure.
C15_AsStated == pc = "backoff" => DelaySet(retries) = DelaySet(0)

\* C15, amended: the delay is not drawn from a range and it depends on the
\* attempt number: the sleep after the first failure of a row is 1 second
\* and each later sleep of the row is backoff_factor (2) times the one
\* before it.
C15_ExponentialBackoff ==
  \A ws \in AllWaits :
    /\ ws # <<>> => ws[1] = 1
    /\ \A j \in 1..(Len(ws) - 1) : ws[j + 1] = backoff_factor * ws[j]

\* A row has slept 1 and then 2 seconds between its attempts.
C15_Witness == pc = "wrapper" /\ waits = <<1, 2>>

(* ---- C16 ---- *)

\* C16, as stated: when the play-count batch completes on a table that
\* holds the result column of an earlier run, the table returned still holds
\* that column with its values, and the new results are under a new label.
C16_AsStated ==
  (/\ Done /\ kind = "spotify" /\ ColumnValid /\ LaunchOk
   /\ NumRows(input) >= 1
   /\ ResultLabel(kind) \in DOMAIN input) =>
     /\ retval[ResultLabel(kind)] = input[ResultLabel(kind)]
     /\ \E c \in DOMAIN retval \ DOMAIN input : retval[c] = results

(* ---- C17 ---- *)

\* C17, as stated: one progress update per row, row i's update coming after
\* row i's result has been appended, with the fractions 1/n, 2/n, ..
C17_AsStated ==
  /\ Len(progress) <= Len(results)
  /\ \A i \in 1..Len(progress) : progress[i] = <<i, NumRows(input)>>

\* C17, amended: one progress update per row iterated, row i's update coming
\* at the start of row i's iteration, before its URL cell is read and before
\* its result is appended; the fractions are i/n for the rows i = 1, 2, ..
\* iterated, so each lies in (0, 1] and they increase strictly; when the
\* loop runs to its end there are n of them and the last one is 1.
C17_ProgressBeforeRow ==
  /\ \A i \in 1..Len(progress) :
       /\ progress[i] = <<i, NumRows(input)>>
       /\ 1 <= progress[i][1] /\ progress[i][1] <= progress[i][2]
  /\ pc = "loop" => Len(progress) = index /\ Len(results) = index
  /\ pc \in {"scrape", "wrapper", "backoff", "row_except"} =>
       Len(progress) = index + 1 /\ Len(results) = index
  /\ pc = "row_sleep" => Len(progress) = index + 1 /\ Len(results) = index + 1
  /\ pc = "assign" => Len(progress) = NumRows(input)
  /\ (Done /\ ~ColumnValid /\ progress # <<>>) =>
       Len(progress) = 1 /\ results = <<>>

\* The second row's update has been given while only the first row has a
\* result.
C17_Witness ==
  /\ pc \in {"scrape", "wrapper"}
  /\ Len(progress) = 2 /\ Len(results) = 1
  /\ progress[2] = <<2, 3>>

(* ---- C18 ---- *)

\* C18, as stated: when the extractor raises on all max_retries calls, the
\* wrapper sleeps max_retries - 1 times, and not after the last failure.
C18_AsStated ==
  /\ pc = "row_except" => Len(waits) = max_retries - 1
  /\ \A i \in AllRaiseRows :
       rowlog[i].ended = "raised" => Len(rowlog[i].waits) = max_retries - 1


(* ---- C19 ---- *)

\* C19: between two consecutive calls of an extractor a sleep completes: a
\* call that raised in the wrapper is followed by the backoff sleep, every
\* other call by the sleep that ends the row, before anything else happens,
\* so no call starts with a call as the last event; and the rows are
\* extracted one after the other: while row index + 1 is being extracted,
\* and when its first call is about to start, exactly the index rows before
\* it have ended and have their results.
C19_SleepBetweenCalls ==
  /\ lastEvent = "call" => pc \in {"backoff", "row_sleep"}
  /\ AboutToCall => lastEvent # "call"
  /\ (AboutToCall /\ SomeCallMade) =>
       lastEvent \in {"backoff", "row_sleep", "random_delay"}
  /\ pc \in {"scrape", "wrapper", "backoff", "row_except"} =>
       /\ Len(rowlog) = index
       /\ Len(results) = index
       /\ \A i \in 1..index : rowlog[i].url = input[url_column][i]

\* A retry is about to start in the second row, after a first row that was
\* extracted too.
C19_Witness ==
  /\ AboutToCall /\ outs # <<>>
  /\ Len(rowlog) = 1 /\ rowlog[1].outs # <<>>
  /\ lastEvent = "backoff"

(* ---- C20 ---- *)

\* The batch ran its loop to the end and assigned the result column.
Completed ==
  Done /\ outcome = "returned" /\ LaunchOk
       /\ (ColumnValid \/ NumRows(input) = 0)

\* What the batch function has handed back, once it has ended.
ReturnedCopy ==
  Done =>
    IF Completed
    THEN /\ retval = WithColumn(input, ResultLabel(kind), results)
         /\ ResultLabel(kind) \in DOMAIN retval
    ELSE IF kind = "spotify"
         THEN outcome = "returned" /\ retval = input
         ELSE outcome = "raised"

\* C20: no step of a batch changes the caller's table: it has the same
\* columns and cells after every step, whether the batch returns or raises;
\* the table returned is the caller's table with the result column set in
\* the copy alone, and when the play-count batch absorbs an error it is the
\* caller's table, column for column.
C20_InputUntouched == [][input' = input /\ ReturnedCopy']_vars

\* A batch has returned a table with the result column, and the caller's
\* table has none.
C20_Witness ==
  /\ Completed /\ NumRows(input) >= 1
  /\ ResultLabel(kind) \notin DOMAIN input
  /\ ResultLabel(kind) \in DOMAIN retval

====
